---- MODULE Spec2Model ----
(***************************************************************************)
(* A model of NatsuLib's string core (natString.h): the non-owning         *)
(* StringView (Compare, Slice, Find, FindBackward, FindCharRepeat), the    *)
(* substring matcher detail_::MatchString, the run search                  *)
(* detail_::SearchCharRepeat, and the owning String built on               *)
(* detail_::StringStorage (inline array / heap pointer union).             *)
(*                                                                         *)
(* Conventions.                                                            *)
(*  - A pointer into a code-unit buffer is the 0-based offset of the unit  *)
(*    it points at; buffer b holds that unit in b[offset + 1].             *)
(*  - A size_t value is written as its two's-complement reading (the       *)
(*    value static_cast<ptrdiff_t> gives), so size_t(-1) is -1; unsigned   *)
(*    comparisons go through UGe.                                          *)
(*  - Code units of a view are char values (signed), CharSet.              *)
(***************************************************************************)
EXTENDS Integers, Sequences, FiniteSets, TLC

(* ------------------------------ bounds --------------------------------- *)
\* Longest underlying buffer a view is a window of.
MaxMem == 4
\* Longest pattern / second operand.
MaxPat == 3

\* Code units used for view contents: 'A' (1) and 0xFF (-1 as a signed char).
CharSet == {1, 0 - 1}

SeqsUpTo(S, n) == UNION {[1..k -> S] : k \in 0..n}

(* ----------------------------- constants ------------------------------- *)
\* detail_::npos = size_t(-1)
npos == -1
\* detail_::MaxAllocaSize = 0x10000
MaxAllocaSize == 65536
\* sizeof(std::ptrdiff_t), the failure table's element size
SizeofPtrdiff == 8

VARIABLES
    mem,          \* the buffer the source view points into
    m_StrBegin,   \* the source view's begin pointer (offset into mem)
    m_StrEnd,     \* the source view's end pointer
    pattern,      \* the second operand (pattern / other view): its own buffer
    out,          \* result of the last pure view operation
    pc,           \* position of the running Find / FindBackward call
    call,         \* that call's function, argument and resolved offset
    ms,           \* locals of detail_::MatchString
    ret,          \* value Find / FindBackward returned
    strs,         \* the String objects: each one's StringStorage fields
    heap,         \* every buffer new CharType[n] has returned, by address
    fault,        \* the first memory fault of the run, or "none"
    hist,         \* per String: what has happened to it since construction
    last,         \* the last String operation, with what it started from
    nops          \* String operations performed

viewVars == <<mem, m_StrBegin, m_StrEnd, pattern>>
findVars == <<pc, call, ms, ret>>
storVars == <<strs, heap, fault, hist, last, nops>>
vars == <<mem, m_StrBegin, m_StrEnd, pattern, out, pc, call, ms, ret,
          strs, heap, fault, hist, last, nops>>

(* ------------------- StringStorage: layout and Init -------------------- *)
\* String::MaxShortStringSize, the ArrayMaxSize of String's storage
ArrayMaxSize == 31
\* Code units the union's Pointer member overlays: sizeof(CharType*) /
\* sizeof(CharType) for the Utf8 string of a 64-bit build.
PtrUnits == 8
\* String objects of a run.
NStr == 2
\* String operations in a run.
MaxOps == 3
\* Largest size a String is grown to.
MaxSize == 64

Strings == 1..NStr

\* A code unit of a String buffer: "nul" is CharType{}, "a" and "b" are
\* characters, "uninit" is a unit never written, "ptr" is a byte of a stored
\* pointer read as a unit, "junk" is a unit read where no buffer is.
Chars == {"a", "b"}

Max2(x, y) == IF x >= y THEN x ELSE y
Rep(n, v) == [i \in 1..n |-> v]

\* Pointer values, and the place GetData() names.
Null == [kind |-> "null", addr |-> 0]
Wild == [kind |-> "wild", addr |-> 0]
HeapPtr(a) == [kind |-> "heap", addr |-> a]
ArrayOf(s) == [kind |-> "array", addr |-> s]

\* StringStorage(): Size{}, Capacity{ ArrayMaxSize }, Pointer{}. The null
\* Pointer zeroes the union's first PtrUnits units; the rest is unwritten.
NewStorage ==
    [live |-> TRUE, Size |-> 0, Capacity |-> ArrayMaxSize,
     Array |-> [i \in 1..ArrayMaxSize |-> IF i <= PtrUnits THEN "nul" ELSE "uninit"],
     Pointer |-> Null]

\* A String that is not constructed (or has been destroyed).
NoStorage == [NewStorage EXCEPT !.live = FALSE]

\* The last operation (none yet) and what has happened to a String.
NoLast == [op |-> "none", s |-> 0, t |-> 0, pre |-> <<>>,
           n |-> 0, cap |-> 0, preS |-> NoStorage, preT |-> NoStorage,
           wf |-> FALSE]
Did(op, s, t) == [NoLast EXCEPT !.op = op, !.s = s, !.t = t]

NewHist == [over |-> FALSE, onlyAR |-> TRUE, alloc |-> FALSE]

\* One default-constructed String; the others are not constructed yet.
InitStor ==
    /\ strs = [s \in Strings |-> IF s = 1 THEN NewStorage ELSE NoStorage]
    /\ heap = <<>>
    /\ fault = "none"
    /\ hist = [s \in Strings |-> NewHist]
    /\ last = NoLast
    /\ nops = 0

(* ------------------------------ StringView ----------------------------- *)
\* StringView::GetSize
GetSize == m_StrEnd - m_StrBegin

\* The code units [begin(), end()) of the source view.
ViewSeq == SubSeq(mem, m_StrBegin + 1, m_StrEnd)

\* std::make_unsigned_t<CharType> of a char value
ToUChar(c) == c % 256

\* StringView::ApplyOffset; the arguments are kept inside its assertion
\* ret <= size, where the size_t addition does not wrap.
ApplyOffset(offset, size) == IF offset < 0 THEN offset + size + 1 ELSE offset

\* Offsets for which ApplyOffset's assertion holds on a view of this size.
Offsets(size) == (0 - (size + 1)) .. size

\* StringView::Compare: a holds [begin(), end()), b holds other's units.
RECURSIVE CompareFrom(_, _, _, _)
CompareFrom(a, b, read, otherRead) ==
    IF read = Len(a) \/ otherRead = Len(b)
    THEN 0
    ELSE LET elem == ToUChar(a[read + 1])
             otherElem == ToUChar(b[otherRead + 1])
         IN IF elem # otherElem
            THEN (IF elem > otherElem THEN 1 ELSE 0 - 1)
            ELSE CompareFrom(a, b, read + 1, otherRead + 1)

Compare(a, b) == CompareFrom(a, b, 0, 0)

\* StringView::operator==, <, <=, >=
OpEq(a, b) == IF Len(a) # Len(b) THEN FALSE ELSE Compare(a, b) = 0
OpLt(a, b) == Compare(a, b) < 0
OpLe(a, b) == Compare(a, b) <= 0
OpGe(a, b) == Compare(a, b) >= 0

\* StringView::Slice: the (begin, end) pointer pair of the returned view.
Slice(begin, end) ==
    LET size == GetSize
    IN [b |-> m_StrBegin + ApplyOffset(begin, size),
        e |-> m_StrEnd + ApplyOffset(end, size)]

\* detail_::SearchCharRepeat over forward pointers into buffer s.
RECURSIVE SCR_Scan(_, _, _, _, _), SCR_Verify(_, _, _, _, _, _)
SCR_Scan(s, srcEnd, searchChar, repeatCount, current) ==
    IF srcEnd - current < repeatCount
    THEN npos
    ELSE IF s[current + 1] = searchChar
         THEN SCR_Verify(s, srcEnd, searchChar, repeatCount, current, 1)
         ELSE SCR_Scan(s, srcEnd, searchChar, repeatCount, current + 1)
SCR_Verify(s, srcEnd, searchChar, repeatCount, current, matchLen) ==
    IF matchLen >= repeatCount
    THEN srcEnd - current
    ELSE IF s[current + matchLen + 1] # searchChar
         THEN SCR_Scan(s, srcEnd, searchChar, repeatCount, current + matchLen + 1)
         ELSE SCR_Verify(s, srcEnd, searchChar, repeatCount, current, matchLen + 1)

SearchCharRepeat(s, srcBegin, srcEnd, searchChar, repeatCount) ==
    SCR_Scan(s, srcEnd, searchChar, repeatCount, srcBegin)

\* StringView::FindCharRepeat
FindCharRepeat(findChar, repeatCount, nBegin) ==
    LET length == GetSize
        realBegin == ApplyOffset(nBegin, length)
    IN IF repeatCount = 0
       THEN realBegin
       ELSE IF length < repeatCount \/ realBegin + repeatCount > length
            THEN npos
            ELSE LET pos == SearchCharRepeat(mem, m_StrBegin + realBegin,
                                             m_StrEnd, findChar, repeatCount)
                 IN IF pos = npos THEN npos ELSE pos + realBegin

\* StringView::Find(CharType, nBegin)
FindChar(findChar, nBegin) == FindCharRepeat(findChar, 1, nBegin)

(* ---------------------- the view operations' actions ------------------- *)
NoOut == [op |-> "none", a1 |-> 0, a2 |-> 0, a3 |-> 0, r1 |-> 0, r2 |-> 0,
          flags |-> <<>>]

InitInputs ==
    /\ mem \in SeqsUpTo(CharSet, MaxMem)
    /\ m_StrBegin \in 0..Len(mem)
    /\ m_StrEnd \in m_StrBegin..Len(mem)
    /\ pattern \in SeqsUpTo(CharSet, MaxPat)

\* An iterator: a forward pointer p, or std::reverse_iterator with base p.
It(p, rev) == [p |-> p, rev |-> rev]

\* MatchString's locals before any call.
NoMS == [srcBegin |-> It(0, FALSE), srcEnd |-> It(0, FALSE),
         patternBegin |-> It(0, FALSE), patternEnd |-> It(0, FALSE),
         patternSize |-> 0, tableSize |-> 0, table |-> <<>>,
         tableNull |-> FALSE, shouldDelete |-> FALSE, allocBytes |-> 0,
         current |-> It(0, FALSE), matchLen |-> 0]

IdleFind ==
    /\ pc = "idle"
    /\ call = [fn |-> "none", n |-> 0, real |-> 0]
    /\ ms = NoMS
    /\ ret = 0

InitView == InitInputs /\ out = NoOut /\ IdleFind /\ InitStor

DoCompare ==
    /\ out = NoOut
    /\ out' = [NoOut EXCEPT !.op = "Compare",
                            !.r1 = Compare(ViewSeq, pattern),
                            !.flags = <<OpEq(ViewSeq, pattern),
                                        OpLt(ViewSeq, pattern),
                                        OpLe(ViewSeq, pattern),
                                        OpGe(ViewSeq, pattern)>>]
    /\ UNCHANGED <<storVars, viewVars, findVars>>

DoSlice ==
    \E begin \in Offsets(GetSize), end \in Offsets(GetSize) :
        /\ ApplyOffset(begin, GetSize) <= ApplyOffset(end, GetSize)
        /\ out = NoOut
        /\ out' = [NoOut EXCEPT !.op = "Slice", !.a1 = begin, !.a2 = end,
                                !.r1 = Slice(begin, end).b,
                                !.r2 = Slice(begin, end).e]
        /\ UNCHANGED <<storVars, viewVars, findVars>>

DoFindCharRepeat ==
    \E findChar \in CharSet, repeatCount \in 1..MaxPat, nBegin \in Offsets(GetSize) :
        /\ out = NoOut
        /\ out' = [NoOut EXCEPT !.op = "FindCharRepeat", !.a1 = findChar,
                                !.a2 = repeatCount, !.a3 = nBegin,
                                !.r1 = FindCharRepeat(findChar, repeatCount, nBegin)]
        /\ UNCHANGED <<storVars, viewVars, findVars>>

DoFindChar ==
    \E findChar \in CharSet, nBegin \in Offsets(GetSize) :
        /\ out = NoOut
        /\ out' = [NoOut EXCEPT !.op = "FindChar", !.a1 = findChar,
                                !.a2 = 1, !.a3 = nBegin,
                                !.r1 = FindChar(findChar, nBegin)]
        /\ UNCHANGED <<storVars, viewVars, findVars>>

NextView == DoCompare \/ DoSlice \/ DoFindCharRepeat \/ DoFindChar

SpecView == InitView /\ [][NextView]_vars

(* ------------------- Find / FindBackward / MatchString ----------------- *)
\* it + k
ItAdd(it, k) == [it EXCEPT !.p = IF it.rev THEN @ - k ELSE @ + k]
\* a - b
ItDiff(a, b) == IF a.rev THEN b.p - a.p ELSE a.p - b.p
\* Offset, in the buffer, of the unit it[k] refers to (a reverse iterator
\* with base p dereferences p - 1).
ItIndex(it, k) == IF it.rev THEN it.p - k - 1 ELSE it.p + k

\* x >= y on size_t, for two's-complement readings x and y.
UGe(x, y) == IF (x >= 0) = (y >= 0) THEN x >= y ELSE x < 0

\* StringView::cbegin / cend / crbegin / crend of the view [b, e)
cbegin(b, e) == It(b, FALSE)
cend(b, e) == It(e, FALSE)
crbegin(b, e) == It(b, TRUE)
crend(b, e) == It(e, TRUE)

\* Whether the source buffer holds a unit at this offset. A read at any
\* other offset leaves the buffer the view borrows from: the run is
\* undefined from there on (pc = "undefined" stands for every outcome).
InMem(idx) == idx >= 0 /\ idx < Len(mem)

\* patternBegin[k]
PatAt(m, k) == pattern[ItIndex(m.patternBegin, k) + 1]

\* The failure table MatchString builds (table[i] is the result's i+1-th
\* entry): table[0] = 0, then the do-while loop for patternSize > 2.
RECURSIVE BuildLoop(_, _, _, _)
BuildLoop(m, table, pos, cand) ==
    LET again(t, p, c) == IF p < m.patternSize - 1 THEN BuildLoop(m, t, p, c) ELSE t
    IN IF PatAt(m, pos) = PatAt(m, cand)
       THEN LET cand2 == cand + 1
                entry == IF PatAt(m, pos + 1) = PatAt(m, cand2)
                         THEN table[(cand2 - 1) + 1] ELSE cand2
            IN again(Append(table, entry), pos + 1, cand2)
       ELSE IF cand = 0
            THEN again(Append(table, 0), pos + 1, 0)
            ELSE again(table, pos, table[(cand - 1) + 1])

BuildTable(m) == IF m.patternSize > 2 THEN BuildLoop(m, <<0>>, 1, 0) ELSE <<0>>

\* Entering MatchString(srcBegin, srcEnd, patternBegin, patternEnd).
EnterMatchString(srcBegin, srcEnd, patternBegin, patternEnd) ==
    [NoMS EXCEPT !.srcBegin = srcBegin, !.srcEnd = srcEnd,
                 !.patternBegin = patternBegin, !.patternEnd = patternEnd,
                 !.patternSize = ItDiff(patternEnd, patternBegin),
                 !.tableSize = ItDiff(patternEnd, patternBegin) - 1]

\* What Find / FindBackward make of MatchString's result pos.
FindResult(pos) ==
    IF pos = npos
    THEN npos
    ELSE IF call.fn = "Find"
         THEN pos + call.real
         ELSE call.real - pos - Len(pattern)

\* StringView::Find(pattern, nBegin) up to its call of MatchString
Find ==
    \E nBegin \in Offsets(GetSize) :
        LET length == GetSize
            realBegin == ApplyOffset(nBegin, length)
            patternLength == Len(pattern)
        IN /\ pc = "idle"
           /\ call' = [fn |-> "Find", n |-> nBegin, real |-> realBegin]
           /\ IF patternLength = 0
              THEN pc' = "done" /\ ret' = realBegin /\ ms' = ms
              ELSE IF length < patternLength \/ realBegin + patternLength > length
                   THEN pc' = "done" /\ ret' = npos /\ ms' = ms
                   ELSE /\ pc' = "alloc"
                        /\ ms' = EnterMatchString(
                                    ItAdd(cbegin(m_StrBegin, m_StrEnd), realBegin),
                                    cend(m_StrBegin, m_StrEnd),
                                    cbegin(0, Len(pattern)), cend(0, Len(pattern)))
                        /\ ret' = ret
           /\ UNCHANGED <<storVars, viewVars, out>>

\* StringView::FindBackward(pattern, nEnd) up to its call of MatchString
FindBackward ==
    \E nEnd \in Offsets(GetSize) :
        LET length == GetSize
            realEnd == ApplyOffset(nEnd, length)
            patternLength == Len(pattern)
        IN /\ pc = "idle"
           /\ call' = [fn |-> "FindBackward", n |-> nEnd, real |-> realEnd]
           /\ IF patternLength = 0
              THEN pc' = "done" /\ ret' = realEnd /\ ms' = ms
              ELSE IF length < patternLength \/ realEnd < length
                   THEN pc' = "done" /\ ret' = npos /\ ms' = ms
                   ELSE /\ pc' = "alloc"
                        /\ ms' = EnterMatchString(
                                    ItAdd(crbegin(m_StrBegin, m_StrEnd), realEnd),
                                    crend(m_StrBegin, m_StrEnd),
                                    crbegin(0, Len(pattern)), crend(0, Len(pattern)))
                        /\ ret' = ret
           /\ UNCHANGED <<storVars, viewVars, out>>

\* MatchString: the table's allocation. At or above MaxAllocaSize /
\* sizeof(ptrdiff_t) entries it is new(std::nothrow), which may give
\* nullptr; a count whose byte size does not fit size_t (a negative
\* reading) gives nullptr or, where the build raises bad_array_new_length
\* inside this noexcept function, ends the program. Below it is
\* alloca(tableSize): tableSize BYTES.
AllocOutcomes(m) ==
    IF UGe(m.tableSize, MaxAllocaSize \div SizeofPtrdiff)
    THEN (IF m.tableSize < 0 THEN {"null", "terminate"} ELSE {"heap", "null"})
    ELSE {"alloca"}

MS_Alloc ==
    /\ pc = "alloc"
    /\ \E o \in AllocOutcomes(ms) :
          /\ ms' = [ms EXCEPT !.tableNull = (o = "null"),
                              !.shouldDelete = (o # "alloca"),
                              !.allocBytes = IF o = "alloca" THEN ms.tableSize
                                             ELSE IF o = "heap"
                                                  THEN ms.tableSize * SizeofPtrdiff
                                                  ELSE 0]
          /\ pc' = IF o = "terminate" THEN "terminated" ELSE "build"
    /\ UNCHANGED <<storVars, viewVars, out, call, ret>>

\* MatchString: if (table) { table[0] = 0; ... } and current = srcBegin.
\* The entries written take Len(table) * sizeof(ptrdiff_t) bytes; when the
\* block obtained is smaller the writes run past it, and the run either goes
\* on with the values as written or is undefined from here on.
MS_Build ==
    /\ pc = "build"
    /\ LET table == IF ms.tableNull THEN <<>> ELSE BuildTable(ms)
           overrun == Len(table) * SizeofPtrdiff > ms.allocBytes
       IN /\ ms' = [ms EXCEPT !.table = table, !.current = ms.srcBegin]
          /\ pc' \in (IF ~ms.tableNull /\ overrun THEN {"scan", "undefined"} ELSE {"scan"})
    /\ UNCHANGED <<storVars, viewVars, out, call, ret>>

\* MatchString: one round of for (;; ++current)
MS_Scan ==
    /\ pc = "scan"
    /\ IF ItDiff(ms.srcEnd, ms.current) < ms.patternSize
       THEN pc' = "done" /\ ret' = FindResult(npos) /\ ms' = ms
       ELSE IF ~InMem(ItIndex(ms.current, 0))
            THEN pc' = "undefined" /\ ret' = ret /\ ms' = ms
            ELSE /\ ret' = ret
                 /\ IF mem[ItIndex(ms.current, 0) + 1] = PatAt(ms, 0)
                    THEN pc' = "match" /\ ms' = [ms EXCEPT !.matchLen = 1]
                    ELSE pc' = "scan" /\ ms' = [ms EXCEPT !.current = ItAdd(@, 1)]
    /\ UNCHANGED <<storVars, viewVars, out, call>>

\* MatchString: the test at the head of the inner while (true)
MS_Match ==
    /\ pc = "match"
    /\ IF UGe(ms.matchLen, ms.patternSize)
       THEN pc' = "done" /\ ret' = FindResult(ItDiff(ms.current, ms.srcBegin))
       ELSE pc' = "cmp" /\ ret' = ret
    /\ UNCHANGED <<storVars, viewVars, out, call, ms>>

\* MatchString: the comparison at label Fallback, and on a mismatch the code
\* after the inner loop (restart, or fall back through the table).
MS_Cmp ==
    /\ pc = "cmp"
    /\ IF ~InMem(ItIndex(ms.current, ms.matchLen))
       THEN pc' = "undefined" /\ ms' = ms
       ELSE IF mem[ItIndex(ms.current, ms.matchLen) + 1] = PatAt(ms, ms.matchLen)
            THEN pc' = "match" /\ ms' = [ms EXCEPT !.matchLen = @ + 1]
            ELSE IF ms.tableNull
                 THEN pc' = "scan" /\ ms' = [ms EXCEPT !.current = ItAdd(@, 1)]
                 ELSE LET fallback == ms.table[(ms.matchLen - 1) + 1]
                          moved == ItAdd(ms.current, ms.matchLen)
                      IN IF fallback # 0
                         THEN /\ pc' = "cmp"
                              /\ ms' = [ms EXCEPT !.current = ItAdd(moved, 0 - fallback),
                                                  !.matchLen = fallback]
                         ELSE /\ pc' = "scan"
                              /\ ms' = [ms EXCEPT !.current = moved]
    /\ UNCHANGED <<storVars, viewVars, out, call, ret>>

\* MatchString's matching loop (from current = srcBegin on) run to its end
\* from position p with locals m: the value it returns (ok), or no value
\* (~ok) when a read leaves the buffer and the run is undefined.
RECURSIVE MatchRun(_, _)
MatchRun(p, m) ==
    IF p = "scan"
    THEN IF ItDiff(m.srcEnd, m.current) < m.patternSize
         THEN [ok |-> TRUE, pos |-> npos]
         ELSE IF ~InMem(ItIndex(m.current, 0))
              THEN [ok |-> FALSE, pos |-> 0]
              ELSE IF mem[ItIndex(m.current, 0) + 1] = PatAt(m, 0)
                   THEN MatchRun("match", [m EXCEPT !.matchLen = 1])
                   ELSE MatchRun("scan", [m EXCEPT !.current = ItAdd(@, 1)])
    ELSE IF p = "match"
    THEN IF UGe(m.matchLen, m.patternSize)
         THEN [ok |-> TRUE, pos |-> ItDiff(m.current, m.srcBegin)]
         ELSE MatchRun("cmp", m)
    ELSE IF ~InMem(ItIndex(m.current, m.matchLen))
         THEN [ok |-> FALSE, pos |-> 0]
         ELSE IF mem[ItIndex(m.current, m.matchLen) + 1] = PatAt(m, m.matchLen)
              THEN MatchRun("match", [m EXCEPT !.matchLen = @ + 1])
              ELSE IF m.tableNull
                   THEN MatchRun("scan", [m EXCEPT !.current = ItAdd(@, 1)])
                   ELSE IF m.table[(m.matchLen - 1) + 1] # 0
                        THEN MatchRun("cmp",
                                 [m EXCEPT !.current = ItAdd(ItAdd(@, m.matchLen),
                                                             0 - m.table[(m.matchLen - 1) + 1]),
                                           !.matchLen = m.table[(m.matchLen - 1) + 1]])
                        ELSE MatchRun("scan", [m EXCEPT !.current = ItAdd(@, m.matchLen)])

\* MatchString entered with locals m, with the table built (if (table) ...)
\* and with table == nullptr (new(std::nothrow) failed).
WithTable(m) == [m EXCEPT !.tableNull = FALSE, !.table = BuildTable(m),
                          !.current = m.srcBegin]
WithoutTable(m) == [m EXCEPT !.tableNull = TRUE, !.table = <<>>,
                             !.current = m.srcBegin]

NextFind == Find \/ FindBackward \/ MS_Alloc \/ MS_Build \/ MS_Scan \/ MS_Match \/ MS_Cmp

InitFind == InitInputs /\ out = NoOut /\ IdleFind /\ InitStor

SpecFind == InitFind /\ [][NextFind]_vars

(* ----------------------- StringStorage: operations --------------------- *)
\* The union { Array; Pointer }: reading Pointer gives the pointer last
\* stored while its bytes are intact, null for all-zero bytes, and a wild
\* pointer when the units hold anything else.
ReadPointer(st) ==
    IF \A i \in 1..PtrUnits : st.Array[i] = "ptr"
    THEN st.Pointer
    ELSE IF \A i \in 1..PtrUnits : st.Array[i] = "nul" THEN Null ELSE Wild

\* Storing Pointer overwrites the union's first PtrUnits units.
SetPointer(st, p) ==
    [st EXCEPT !.Pointer = p,
               !.Array = [i \in 1..ArrayMaxSize |->
                            IF i <= PtrUnits
                            THEN (IF p.kind = "null" THEN "nul" ELSE "ptr")
                            ELSE @[i]]]

\* The memory of a run: the Strings, the heap and the first fault.
Fail(M, f) == IF M.fault = "none" THEN [M EXCEPT !.fault = f] ELSE M

\* StringStorage::GetData
GetData(M, s) ==
    IF M.strs[s].Capacity > ArrayMaxSize THEN ReadPointer(M.strs[s]) ELSE ArrayOf(s)

\* The unit at loc[i] (what a read finds there; "junk" where nothing is).
ReadCell(M, loc, i) ==
    IF loc.kind = "array"
    THEN (IF i < ArrayMaxSize THEN M.strs[loc.addr].Array[i + 1] ELSE "junk")
    ELSE IF loc.kind = "heap"
         THEN (IF i < Len(M.heap[loc.addr].cells)
               THEN M.heap[loc.addr].cells[i + 1] ELSE "junk")
         ELSE "junk"

\* The fault, if any, in touching the n units loc[i .. i+n).
AccessFault(M, loc, i, n) ==
    IF n = 0 THEN "none"
    ELSE IF loc.kind = "array"
         THEN (IF ~M.strs[loc.addr].live THEN "access to a destroyed String"
               ELSE IF i + n > ArrayMaxSize THEN "access past the inline array"
               ELSE "none")
    ELSE IF loc.kind = "heap"
         THEN (IF ~M.heap[loc.addr].live THEN "access to a freed buffer"
               ELSE IF i + n > Len(M.heap[loc.addr].cells)
                    THEN "access past a heap buffer"
               ELSE "none")
    ELSE IF loc.kind = "null" THEN "access through a null pointer"
    ELSE "access through a wild pointer"

\* Store the units of seq at loc[off ..].
WriteRange(M, loc, off, seq) ==
    LET n == Len(seq)
        f == AccessFault(M, loc, off, n)
        put(cells) == [k \in 1..Len(cells) |->
                         IF k > off /\ k <= off + n THEN seq[k - off] ELSE cells[k]]
    IN IF M.fault # "none" \/ n = 0 THEN M
       ELSE IF f # "none" THEN Fail(M, f)
       ELSE IF loc.kind = "array"
            THEN [M EXCEPT !.strs[loc.addr].Array = put(@)]
            ELSE [M EXCEPT !.heap[loc.addr].cells = put(@)]

\* std::memmove / std::copy of n units from src[soff ..] to dst[doff ..].
Memmove(M, dst, doff, src, soff, n) ==
    LET f == AccessFault(M, src, soff, n)
    IN IF M.fault # "none" \/ n = 0 THEN M
       ELSE IF f # "none" THEN Fail(M, f)
       ELSE WriteRange(M, dst, doff, [k \in 1..n |-> ReadCell(M, src, soff + k - 1)])

\* new CharType[n]: a fresh buffer of n unwritten units at the next address.
NewBuffer(M, n) == [M EXCEPT !.heap = Append(@, [cells |-> Rep(n, "uninit"), live |-> TRUE])]

\* delete[] p
Delete(M, p) ==
    IF M.fault # "none" \/ p.kind = "null" THEN M
    ELSE IF p.kind = "heap"
         THEN (IF M.heap[p.addr].live
               THEN [M EXCEPT !.heap[p.addr].live = FALSE]
               ELSE Fail(M, "delete[] of a freed buffer"))
         ELSE Fail(M, "delete[] of a pointer not from new")

\* A Grow that leaves no room for the terminator.
GrowExact(size) == size

\* A Grow that doubles instead of adding a half and aligning.
GrowDouble(size) == 2 * (size + 1)

\* detail_::Grow
Grow(size) ==
    LET x == size + 1 + ((size + 1) \div 2) + 15
    IN Max2(size + 1, x - (x % 16))

\* StringStorage::Reserve
Reserve(M, s, newCapacity) ==
    LET st == M.strs[s]
        newBuffer == HeapPtr(Len(M.heap) + 1)
        \* the copy of the old content and its terminator, only if Size > 0
        Copy(M1) == IF st.Size > 0
                    THEN WriteRange(
                           Memmove(M1, newBuffer, 0, GetData(M1, s), 0, st.Size),
                           newBuffer, st.Size, <<"nul">>)
                    ELSE M1
        \* if (Capacity <= ArrayMaxSize) Pointer = nullptr
        Cleared(M2) == IF st.Capacity <= ArrayMaxSize
                       THEN SetPointer(M2.strs[s], Null)
                       ELSE M2.strs[s]
        \* swap(Pointer, newBuffer); Capacity = newCapacity; delete[] newBuffer
        Swap(M2) ==
            IF M2.fault # "none" THEN M2
            ELSE Delete([M2 EXCEPT !.strs[s] =
                           [SetPointer(Cleared(M2), newBuffer) EXCEPT !.Capacity = newCapacity]],
                        ReadPointer(Cleared(M2)))
    IN IF M.fault # "none" \/ newCapacity <= st.Capacity
       THEN M
       ELSE IF newCapacity > ArrayMaxSize
            THEN Swap(Copy(NewBuffer(M, newCapacity)))
            ELSE M

\* StringStorage::Resize
Resize(M, s, newSize) ==
    LET st == M.strs[s]
        Fill(M1) == IF newSize > st.Size
                    THEN WriteRange(M1, GetData(M1, s), st.Size, Rep(newSize - st.Size, "nul"))
                    ELSE M1
        SetSize(M2) == IF M2.fault # "none" THEN M2 ELSE [M2 EXCEPT !.strs[s].Size = newSize]
        Terminate(M3) == WriteRange(M3, GetData(M3, s), newSize, <<"nul">>)
    IN IF M.fault # "none" THEN M
       ELSE Terminate(SetSize(Fill(
                IF newSize >= Max2(ArrayMaxSize, st.Capacity)
                THEN Reserve(M, s, Grow(newSize))
                ELSE M)))

\* StringStorage::Assign(const CharType* str, size_t length)
AssignRaw(M, s, str, length) ==
    LET Copy(M1) == Memmove(M1, GetData(M1, s), 0, str, 0, length)
    IN Copy(Resize(M, s, length))

\* StringStorage::Assign(StringStorage&& other): this is s, other is t.
AssignMove(M, s, t) ==
    LET this == M.strs[s]
        other == M.strs[t]
        firstOf(x, y) == [i \in 1..ArrayMaxSize |->
                            IF i <= PtrUnits THEN x.Array[i] ELSE y.Array[i]]
    IN IF M.fault # "none" THEN M
       ELSE IF other.Capacity > ArrayMaxSize /\ other.Size > ArrayMaxSize
            THEN IF s = t
                 THEN M
                 ELSE [M EXCEPT
                         !.strs[s] = [this EXCEPT !.Pointer = other.Pointer,
                                                  !.Array = firstOf(other, this),
                                                  !.Capacity = other.Capacity,
                                                  !.Size = other.Size],
                         !.strs[t] = [other EXCEPT !.Pointer = this.Pointer,
                                                   !.Array = firstOf(this, other)]]
            ELSE AssignRaw(M, s, GetData(M, t), other.Size)

\* StringStorage::~StringStorage
Destruct(M, s) ==
    LET st == M.strs[s]
        Gone(M1) == IF M1.fault # "none" THEN M1 ELSE [M1 EXCEPT !.strs[s] = NoStorage]
    IN Gone(IF st.Capacity > ArrayMaxSize THEN Delete(M, ReadPointer(st)) ELSE M)

(* -------------------------------- String ------------------------------- *)
\* String::GetView: where the content is, and how long.
GetView(M, t) == [loc |-> GetData(M, t), len |-> M.strs[t].Size]

\* The content of String s: the Size units GetData() points at.
Content(M, s) == [k \in 1..M.strs[s].Size |-> ReadCell(M, GetData(M, s), k - 1)]

\* String::Assign(CharType Char, size_t count)
AssignChar(M, s, Char, count) ==
    LET Fill(M1) == WriteRange(M1, GetData(M1, s), 0, Rep(count, Char))
    IN Fill(Resize(M, s, count))

\* String::Assign(View const& view)
AssignView(M, s, view) ==
    LET Copy(M1) == Memmove(M1, GetData(M1, s), 0, view.loc, 0, view.len)
    IN Copy(Resize(M, s, view.len))

\* String::Append(CharType Char, size_t count), through ResizeMore
AppendChar(M, s, Char, count) ==
    LET oldSize == M.strs[s].Size
        Fill(M1) == WriteRange(M1, GetData(M1, s), oldSize, Rep(count, Char))
    IN Fill(Resize(M, s, oldSize + count))

\* String::Append(View const& view), through ResizeMore: the view is read
\* after the resize, from wherever it pointed before it.
AppendView(M, s, view) ==
    LET oldSize == M.strs[s].Size
        Copy(M1) == Memmove(M1, GetData(M1, s), oldSize, view.loc, 0, view.len)
    IN Copy(Resize(M, s, oldSize + view.len))

\* String::pop_front(size_t count)
PopFront(M, s, count) ==
    LET size == M.strs[s].Size
    IN Resize(Memmove(M, GetData(M, s), 0, GetData(M, s), count, size - count),
              s, size - count)

\* String::pop_back(size_t count)
PopBack(M, s, count) == Resize(M, s, M.strs[s].Size - count)

\* String(String const&) = default and operator=(String const&) = default:
\* StringStorage declares only constructor and assignment TEMPLATES, which
\* are never the copy constructor / copy assignment operator, so the copy
\* of m_Storage is the implicit member-wise one: Size, Capacity and the
\* union's bytes (the Pointer itself) are copied, nothing is allocated and
\* the destination's previous buffer is not released.
CopyStorage(M, s, t) == [M EXCEPT !.strs[s] = M.strs[t]]

\* String(String&&) = default: StringStorage{} then Assign(std::move(other))
MoveConstructStorage(M, s, t) == AssignMove([M EXCEPT !.strs[s] = NewStorage], s, t)

(* ------------------------- the String operations ----------------------- *)
\* Arguments the operations are called with.
ReserveArgs == {10, 40}
ResizeArgs == {0, 30, 31, 32, 40}
AssignCounts == {2, 16, 32}
AppendCounts == {1, 16}
PopCounts == {1}

Cur == [strs |-> strs, heap |-> heap, fault |-> fault]

\* hist after an operation on s that led to memory M2; isAR: the operation
\* was an Append or a Resize.
HistAfter(s, M2, isAR) ==
    [hist EXCEPT ![s] = [over |-> @.over \/ M2.strs[s].Size > ArrayMaxSize,
                         onlyAR |-> @.onlyAR /\ isAR,
                         alloc |-> @.alloc \/ Len(M2.heap) > Len(heap)]]

Commit(M2) == strs' = M2.strs /\ heap' = M2.heap /\ fault' = M2.fault

\* The operation on s led to memory M2.
Apply(s, M2, isAR) == Commit(M2) /\ hist' = HistAfter(s, M2, isAR)

\* Storage st is well-formed over heap hp: when its Capacity says it is
\* heap-backed, its Pointer is a live buffer from new of at least Capacity
\* units.
WellFormed(st, hp) ==
    st.Capacity > ArrayMaxSize =>
        /\ ReadPointer(st).kind = "heap"
        /\ hp[ReadPointer(st).addr].live
        /\ Len(hp[ReadPointer(st).addr].cells) >= st.Capacity

\* Storages a and b read their content through the same heap buffer.
SameBuffer(a, b) ==
    /\ a.Capacity > ArrayMaxSize /\ b.Capacity > ArrayMaxSize
    /\ ReadPointer(a).kind = "heap"
    /\ ReadPointer(a) = ReadPointer(b)

Ready(s) == fault = "none" /\ nops < MaxOps /\ strs[s].live

StringReserve ==
    \E s \in Strings, newCapacity \in ReserveArgs :
        /\ Ready(s)
        /\ Apply(s, Reserve(Cur, s, newCapacity), FALSE)
        /\ last' = [Did("Reserve", s, 0) EXCEPT !.n = newCapacity,
                                                !.cap = strs[s].Capacity]
        /\ nops' = nops + 1
        /\ UNCHANGED <<viewVars, out, findVars>>

StringResize ==
    \E s \in Strings, newSize \in ResizeArgs :
        /\ Ready(s)
        /\ Apply(s, Resize(Cur, s, newSize), TRUE)
        /\ last' = [Did("Resize", s, 0) EXCEPT !.n = newSize,
                                               !.cap = strs[s].Capacity]
        /\ nops' = nops + 1
        /\ UNCHANGED <<viewVars, out, findVars>>

StringAssignChar ==
    \E s \in Strings, Char \in Chars, count \in AssignCounts :
        /\ Ready(s)
        /\ Apply(s, AssignChar(Cur, s, Char, count), FALSE)
        /\ last' = Did("Assign", s, 0)
        /\ nops' = nops + 1
        /\ UNCHANGED <<viewVars, out, findVars>>

StringAssignView ==
    \E s \in Strings, t \in Strings :
        /\ Ready(s) /\ strs[t].live
        /\ Apply(s, AssignView(Cur, s, GetView(Cur, t)), FALSE)
        /\ last' = Did("AssignView", s, t)
        /\ nops' = nops + 1
        /\ UNCHANGED <<viewVars, out, findVars>>

StringAppendChar ==
    \E s \in Strings, Char \in Chars, count \in AppendCounts :
        /\ Ready(s)
        /\ strs[s].Size + count <= MaxSize
        /\ Apply(s, AppendChar(Cur, s, Char, count), TRUE)
        /\ last' = Did("Append", s, 0)
        /\ nops' = nops + 1
        /\ UNCHANGED <<viewVars, out, findVars>>

StringAppendView ==
    \E s \in Strings, t \in Strings :
        /\ Ready(s) /\ strs[t].live
        /\ strs[s].Size + strs[t].Size <= MaxSize
        /\ Apply(s, AppendView(Cur, s, GetView(Cur, t)), TRUE)
        /\ last' = [Did("AppendView", s, t) EXCEPT !.pre = Content(Cur, s)]
        /\ nops' = nops + 1
        /\ UNCHANGED <<viewVars, out, findVars>>

pop_front ==
    \E s \in Strings, count \in PopCounts :
        /\ Ready(s)
        /\ count <= strs[s].Size
        /\ Apply(s, PopFront(Cur, s, count), FALSE)
        /\ last' = Did("pop_front", s, 0)
        /\ nops' = nops + 1
        /\ UNCHANGED <<viewVars, out, findVars>>

pop_back ==
    \E s \in Strings, count \in PopCounts :
        /\ Ready(s)
        /\ count <= strs[s].Size
        /\ Apply(s, PopBack(Cur, s, count), FALSE)
        /\ last' = Did("pop_back", s, 0)
        /\ nops' = nops + 1
        /\ UNCHANGED <<viewVars, out, findVars>>

\* String()
Construct ==
    \E s \in Strings :
        /\ fault = "none" /\ ~strs[s].live
        /\ strs' = [strs EXCEPT ![s] = NewStorage]
        /\ hist' = [hist EXCEPT ![s] = NewHist]
        /\ last' = Did("Construct", s, 0)
        /\ UNCHANGED <<heap, fault, nops, viewVars, out, findVars>>

\* String(String const& other): s is constructed from t
CopyConstruct ==
    \E s \in Strings, t \in Strings :
        /\ fault = "none" /\ nops < MaxOps /\ ~strs[s].live /\ strs[t].live
        /\ Commit(CopyStorage(Cur, s, t))
        /\ hist' = [hist EXCEPT ![s] = [NewHist EXCEPT !.onlyAR = FALSE,
                                          !.over = strs[t].Size > ArrayMaxSize]]
        /\ last' = Did("CopyConstruct", s, t)
        /\ nops' = nops + 1
        /\ UNCHANGED <<viewVars, out, findVars>>

\* String(String&& other): s is constructed from t
MoveConstruct ==
    \E s \in Strings, t \in Strings :
        /\ fault = "none" /\ nops < MaxOps /\ ~strs[s].live /\ strs[t].live
        /\ LET Moved(M2) ==
                 /\ Commit(M2)
                 /\ hist' = [hist EXCEPT
                            ![s] = [over |-> M2.strs[s].Size > ArrayMaxSize,
                                    onlyAR |-> FALSE,
                                    alloc |-> Len(M2.heap) > Len(heap)],
                            ![t] = [@ EXCEPT !.onlyAR = FALSE]]
           IN Moved(MoveConstructStorage(Cur, s, t))
        /\ last' = Did("MoveConstruct", s, t)
        /\ nops' = nops + 1
        /\ UNCHANGED <<viewVars, out, findVars>>

\* String::operator=(String const& other)
CopyAssign ==
    \E s \in Strings, t \in Strings :
        /\ Ready(s) /\ strs[t].live
        /\ Apply(s, CopyStorage(Cur, s, t), FALSE)
        /\ last' = Did("CopyAssign", s, t)
        /\ nops' = nops + 1
        /\ UNCHANGED <<viewVars, out, findVars>>

\* String::operator=(String&& other)
MoveAssign ==
    \E s \in Strings, t \in Strings :
        /\ Ready(s) /\ strs[t].live
        /\ LET Moved(M2) ==
                 /\ Commit(M2)
                 /\ hist' = [HistAfter(s, M2, FALSE) EXCEPT ![t].onlyAR = FALSE]
           IN Moved(AssignMove(Cur, s, t))
        /\ last' = [Did("MoveAssign", s, t) EXCEPT !.pre = Content(Cur, t),
                                                   !.preS = strs[s],
                                                   !.preT = strs[t],
                                                   !.wf = /\ WellFormed(strs[s], heap)
                                                          /\ WellFormed(strs[t], heap)
                                                          /\ ~SameBuffer(strs[s], strs[t])]
        /\ nops' = nops + 1
        /\ UNCHANGED <<viewVars, out, findVars>>

\* ~String()
Destroy ==
    \E s \in Strings :
        /\ fault = "none" /\ strs[s].live
        /\ Commit(Destruct(Cur, s))
        /\ last' = Did("Destroy", s, 0)
        /\ UNCHANGED <<hist, nops, viewVars, out, findVars>>

Next ==
    \/ StringReserve \/ StringResize \/ StringAssignChar \/ StringAssignView
    \/ StringAppendChar \/ StringAppendView \/ pop_front \/ pop_back
    \/ Construct \/ CopyConstruct \/ MoveConstruct \/ CopyAssign \/ MoveAssign
    \/ Destroy

\* The view side is idle while Strings are operated on.
Init ==
    /\ InitStor
    /\ mem = <<>> /\ m_StrBegin = 0 /\ m_StrEnd = 0 /\ pattern = <<>>
    /\ out = NoOut
    /\ IdleFind

Spec == Init /\ [][Next]_vars

(* ----------------------- claims on the view operations ----------------- *)
\* The offset a claim calls "resolved": a negative offset o on a view of
\* size n is position n + 1 + o, a non-negative one is itself.
Resolved(o, n) == IF o < 0 THEN n + 1 + o ELSE o

Min(S) == CHOOSE x \in S : \A y \in S : x <= y

\* Sign of the lexicographic order of a and b by unsigned code-unit value,
\* written from the definition of that order (not from Compare).
LexSign(a, b) ==
    LET common == IF Len(a) < Len(b) THEN Len(a) ELSE Len(b)
        diffs == {i \in 1..common : a[i] # b[i]}
    IN IF diffs = {}
       THEN (IF Len(a) = Len(b) THEN 0 ELSE IF Len(a) < Len(b) THEN 0 - 1 ELSE 1)
       ELSE LET i == Min(diffs)
            IN IF ToUChar(a[i]) < ToUChar(b[i]) THEN 0 - 1 ELSE 1

\* C2: Compare orders views lexicographically by unsigned code-unit value:
\* zero only for equal sequences, negative when the view is a proper prefix
\* of the other or smaller at the first difference, positive otherwise; and
\* (a <= b and a >= b) implies a == b.
C2_CompareIsLexicographic ==
    out.op = "Compare" =>
        LET a == ViewSeq
            b == pattern
        IN /\ (out.r1 = 0) <=> (a = b)
           /\ (LexSign(a, b) < 0) => (out.r1 < 0)
           /\ (LexSign(a, b) > 0) => (out.r1 > 0)
           /\ (out.flags[3] /\ out.flags[4]) => out.flags[1]

\* C3: for offsets resolving to b <= e <= n, Slice returns the view over
\* positions [b, e) counted from the source's begin, contained in the source.
C3_SliceIsWindow ==
    out.op = "Slice" =>
        LET n == GetSize
            b == Resolved(out.a1, n)
            e == Resolved(out.a2, n)
        IN (b <= e /\ e <= n) =>
              /\ out.r1 = m_StrBegin + b
              /\ out.r2 = m_StrBegin + e
              /\ m_StrBegin <= out.r1
              /\ out.r2 <= m_StrEnd

\* The run of k units equal to c starts at index i of the source view.
RunAt(i, c, k) ==
    /\ i + k <= GetSize
    /\ \A j \in 0..(k - 1) : mem[m_StrBegin + i + j + 1] = c

\* Smallest index >= from where such a run starts, or npos.
NaiveRun(c, k, from) ==
    LET hits == {i \in from..GetSize : RunAt(i, c, k)}
    IN IF hits = {} THEN npos ELSE Min(hits)

\* C9: FindCharRepeat(c, k, nBegin) returns the smallest index i >= the
\* resolved begin offset where k units equal to c start, or npos; Find(c,
\* nBegin) is the k = 1 case.
C9_FindCharRepeatIsFirstRun ==
    out.op \in {"FindCharRepeat", "FindChar"} =>
        out.r1 = NaiveRun(out.a1, out.a2, Resolved(out.a3, GetSize))

(* ------------------ claims on Find and FindBackward -------------------- *)
Max(S) == CHOOSE x \in S : \A y \in S : x >= y

\* The pattern occurs in the source view at index i, wholly inside the view.
OccursAt(i) ==
    /\ i >= 0
    /\ i + Len(pattern) <= GetSize
    /\ \A j \in 1..Len(pattern) : mem[m_StrBegin + i + j] = pattern[j]

\* The naive reference search: smallest occurrence at or after from.
NaiveFind(from) ==
    LET hits == {i \in from..GetSize : OccursAt(i)}
    IN IF hits = {} THEN npos ELSE Min(hits)

\* The naive reference search backwards: last occurrence ending by upTo.
NaiveFindBackward(upTo) ==
    LET hits == {i \in 0..GetSize : OccursAt(i) /\ i + Len(pattern) <= upTo}
    IN IF hits = {} THEN npos ELSE Max(hits)

\* C1: Find(pattern, nBegin) returns what the naive reference search
\* returns: the smallest index i >= the resolved begin offset where the
\* pattern occurs with i + m <= size, or npos; also for a view that is a
\* window of a larger buffer and for patterns of length 0..size.
C1_FindIsNaiveSearch ==
    (pc = "done" /\ call.fn = "Find") =>
        ret = NaiveFind(Resolved(call.n, GetSize))

\* C8: for a non-empty pattern FindBackward(pattern, nEnd) returns the start
\* of the last occurrence that ends at or before the resolved end offset,
\* and npos only when there is none.
C8_FindBackwardIsLastOccurrence ==
    (pc = "done" /\ call.fn = "FindBackward" /\ Len(pattern) > 0) =>
        ret = NaiveFindBackward(Resolved(call.n, GetSize))

(* ------------------------- claims on the String ------------------------ *)
\* s reads its content through its inline array.
IsInline(s) == strs[s].Capacity <= ArrayMaxSize

\* s holds the heap buffer at address a.
Holds(s, a) ==
    /\ strs[s].live
    /\ strs[s].Capacity > ArrayMaxSize
    /\ ReadPointer(strs[s]) = HeapPtr(a)

\* C4: Append called with a view of the string's own content leaves the
\* string with its original content repeated twice (so with twice the
\* length), and the copy reads no released or overwritten buffer (no fault).
C4_SelfAppendDoubles ==
    (last.op = "AppendView" /\ last.s = last.t) =>
        /\ fault = "none"
        /\ strs[last.s].Size = 2 * Len(last.pre)
        /\ Content(Cur, last.s) = last.pre \o last.pre

\* C5: a String that has only been appended to and resized since its default
\* construction is inline, and has allocated nothing, if and only if its size
\* has never exceeded ArrayMaxSize.
C5_InlineIffNeverExceeded ==
    \A s \in Strings :
        (fault = "none" /\ strs[s].live /\ hist[s].onlyAR) =>
            ((IsInline(s) /\ ~hist[s].alloc) <=> ~hist[s].over)

\* C6: in every reachable state every String has Capacity > Size (the
\* assertion at the end of Resize holds).
C6_CapacityAboveSize ==
    \A s \in Strings : strs[s].live => strs[s].Capacity > strs[s].Size

\* C6 witness: an Append has just taken a String across the inline
\* threshold into a heap buffer.
C6_Witness ==
    /\ fault = "none"
    /\ last.op = "Append"
    /\ strs[last.s].Size = ArrayMaxSize + 1
    /\ ~IsInline(last.s)
    /\ hist[last.s].alloc

\* C7: in every reachable state the code unit at index Size of a String's
\* current buffer has been written and is zero.
C7_TerminatorWritten ==
    \A s \in Strings :
        (fault = "none" /\ strs[s].live) =>
            ReadCell(Cur, GetData(Cur, s), strs[s].Size) = "nul"

\* C10: no two live Strings hold the same heap buffer, no buffer is released
\* twice or released without having come from new, and every buffer not yet
\* released is held by a live String.
C10_SingleOwner ==
    /\ fault \notin {"delete[] of a freed buffer", "delete[] of a pointer not from new"}
    /\ \A s, t \in Strings, a \in 1..Len(heap) :
          (s # t /\ Holds(s, a)) => ~Holds(t, a)
    /\ fault = "none" =>
          \A a \in 1..Len(heap) : heap[a].live => \E s \in Strings : Holds(s, a)

\* x rounded up to a multiple of 16.
RoundUp16(x) == ((x + 15) \div 16) * 16

\* The growth policy as stated: max(n+1, (n+1) + floor((n+1)/2) rounded up
\* to a multiple of 16).
GrowthPolicy(n) == Max2(n + 1, RoundUp16((n + 1) + ((n + 1) \div 2)))

\* C11: Resize(n) changes Capacity only when n >= Capacity, and then to the
\* growth policy's value for n; when n < Capacity the Capacity is unchanged;
\* Capacity never decreases under Resize or Reserve.
C11_ResizeGrowthPolicy ==
    /\ (fault = "none" /\ last.op = "Resize") =>
          strs[last.s].Capacity =
              IF last.n >= last.cap THEN GrowthPolicy(last.n) ELSE last.cap
    /\ last.op \in {"Resize", "Reserve"} => strs[last.s].Capacity >= last.cap

\* C11 witness: a Resize to exactly the Capacity of a heap buffer has moved
\* the String to a larger heap buffer.
C11_Witness ==
    /\ fault = "none"
    /\ last.op = "Resize"
    /\ last.cap > ArrayMaxSize
    /\ last.n = last.cap
    /\ strs[last.s].Capacity > last.cap

\* The last operation was a move-assignment between two different,
\* well-formed Strings that shared nothing, and it ran without a fault.
AfterMoveAssign ==
    /\ last.op = "MoveAssign"
    /\ last.s # last.t
    /\ last.wf
    /\ fault = "none"

\* The condition under which move-assignment is to transfer the buffer:
\* source and destination both heap-backed, source Size above the
\* destination's inline capacity.
ShouldTransfer ==
    /\ last.preT.Capacity > ArrayMaxSize
    /\ last.preS.Capacity > ArrayMaxSize
    /\ last.preT.Size > ArrayMaxSize

\* The destination now holds the buffer the source held before.
Transferred ==
    /\ last.preT.Capacity > ArrayMaxSize
    /\ SameBuffer(strs[last.s], last.preT)

\* C12: move-assignment transfers the source's heap buffer to the
\* destination only when both are heap-backed and the source's Size exceeds
\* the inline capacity; in every other case the destination receives a copy
\* of the source's content and the source keeps its own buffer.
C12_MoveAssignTransfersOnlyHeapToHeap ==
    AfterMoveAssign =>
        /\ Transferred <=> ShouldTransfer
        /\ ~ShouldTransfer =>
              /\ Content(Cur, last.s) = last.pre
              /\ strs[last.t] = last.preT

\* C16: after a move-assignment both the destination and the moved-from
\* source are well-formed.
C16_MoveAssignLeavesWellFormed ==
    AfterMoveAssign =>
        /\ WellFormed(strs[last.s], heap)
        /\ WellFormed(strs[last.t], heap)

(* --------------------------- claims on MatchString --------------------- *)
\* The first b units of the pattern equal the last b units of pattern[0..i].
IsBorder(i, b) ==
    \A k \in 0..(b - 1) : pattern[k + 1] = pattern[(i + 1 - b + k) + 1]

\* Length of the longest proper border of pattern[0..i].
LongestBorder(i) == Max({b \in 0..i : IsBorder(i, b)})

\* MatchString, called by Find with a pattern of at least 2 units, has built
\* its table and gone on to match.
TableBuilt ==
    /\ pc \in {"scan", "match", "cmp", "done"}
    /\ call.fn = "Find"
    /\ ms.patternSize >= 2
    /\ ~ms.tableNull

\* C13: for a pattern of length m >= 2 the failure table has m-1 entries (the
\* block it is built in holds them) and table[i] is the length of the
\* longest proper border of pattern[0..i], for each i in 0..m-2.
C13_TableIsLongestBorder ==
    TableBuilt =>
        /\ Len(ms.table) = ms.patternSize - 1
        /\ ms.allocBytes >= (ms.patternSize - 1) * SizeofPtrdiff
        /\ \A i \in 0..(ms.patternSize - 2) : ms.table[i + 1] = LongestBorder(i)

\* C15: whenever MatchString compares current[matchLen] against the pattern,
\* at least patternSize units remain between current and srcEnd, and the
\* unit read lies inside [srcBegin, srcEnd).
C15_ReadsInsideSource ==
    pc = "cmp" =>
        /\ ItDiff(ms.srcEnd, ms.current) >= ms.patternSize
        /\ ItDiff(ms.current, ms.srcBegin) + ms.matchLen >= 0
        /\ ItDiff(ms.current, ms.srcBegin) + ms.matchLen < ItDiff(ms.srcEnd, ms.srcBegin)

\* C14: MatchString returns the same result when the table's allocation has
\* failed (table == nullptr, restart at the next source position) as when
\* the table is available. The matching loop does not depend on the
\* pattern's length otherwise, so the patterns here stand for those at the
\* heap threshold, where new(std::nothrow) can fail.
C14_NullTableSameResult ==
    (pc = "alloc" /\ call.fn = "Find") =>
        MatchRun("scan", WithoutTable(ms)) = MatchRun("scan", WithTable(ms))

====
